---- MODULE Spec2Model ----
(***************************************************************************)
(* Model of norse/torch/functional/lif_box.py: one Euler step of the boxed *)
(* leaky integrate-and-fire neuron, lif_box_feed_forward_step, called      *)
(* repeatedly by a caller that threads the returned state into the next    *)
(* call.                                                                   *)
(*                                                                         *)
(* One tensor element is modelled (the function is elementwise).  Tensor   *)
(* values are exact rationals <<numerator, denominator>> in lowest terms   *)
(* with a positive denominator; the arithmetic operators below are the     *)
(* tensor +, - and * of the source on finite values.  Floating-point       *)
(* rounding and overflow to inf/nan are outside this model.                *)
(***************************************************************************)
EXTENDS Integers, Sequences, FiniteSets, TLC

VARIABLES p, dt, state, call, steps, v_init, inputs_seen, spikes

vars == <<p, dt, state, call, steps, v_init, inputs_seen, spikes>>

(* ---------------------------------------------------------------------- *)
(* Bounds                                                                  *)
(* ---------------------------------------------------------------------- *)
\* number of calls the caller makes in one run
MaxSteps == 7

(* ---------------------------------------------------------------------- *)
(* Tensor arithmetic on one element                                        *)
(* ---------------------------------------------------------------------- *)
Abs(n) == IF n < 0 THEN -n ELSE n

RECURSIVE GCD(_, _)
GCD(a, b) == IF b = 0 THEN a ELSE GCD(b, a % b)

\* the value n/d in lowest terms, d # 0
Rat(n, d) ==
    LET g == GCD(Abs(n), Abs(d))
        s == IF d < 0 THEN -1 ELSE 1
    IN  <<(s * n) \div g, (s * d) \div g>>

LCM(a, b) == (a \div GCD(a, b)) * b

Zero == <<0, 1>>
One == <<1, 1>>

\* x + y
RAdd(x, y) ==
    LET l == LCM(x[2], y[2])
    IN  Rat(x[1] * (l \div x[2]) + y[1] * (l \div y[2]), l)

\* x - y
RSub(x, y) ==
    LET l == LCM(x[2], y[2])
    IN  Rat(x[1] * (l \div x[2]) - y[1] * (l \div y[2]), l)

\* x * y
RMul(x, y) ==
    LET g1 == GCD(Abs(x[1]), y[2])
        g2 == GCD(Abs(y[1]), x[2])
    IN  Rat((x[1] \div g1) * (y[1] \div g2), (x[2] \div g2) * (y[2] \div g1))

\* x < y
RLt(x, y) ==
    LET l == LCM(x[2], y[2])
    IN  x[1] * (l \div x[2]) < y[1] * (l \div y[2])

\* x >= y
RGe(x, y) == ~RLt(x, y)

(* ---------------------------------------------------------------------- *)
(* Parameters and state                                                    *)
(* ---------------------------------------------------------------------- *)
\* LIFBoxParameters() with every field at its default
DefaultParameters ==
    [tau_mem_inv |-> Rat(100, 1), v_leak |-> Zero, v_th |-> One,
     v_reset |-> Zero, method |-> "super", alpha |-> Rat(100, 1)]

\* default of the dt argument
DefaultDt == Rat(1, 1000)

\* the parameter values the runs are started with
TauMemInvs == {Zero, Rat(100, 1), Rat(200, 1)}
VLeaks == {Zero, One}
VThs == {Zero, One}
VResets == {Rat(-1, 1), Zero, One}
Dts == {DefaultDt, Rat(1, 100)}
InitialVs == {Zero, Rat(2, 1)}
Inputs == {Rat(-1, 1), Zero, Rat(2, 1)}

LIFBoxParameters ==
    [tau_mem_inv : TauMemInvs, v_leak : VLeaks, v_th : VThs,
     v_reset : VResets, method : {"super"}, alpha : {Rat(100, 1)}]

LIFBoxFeedForwardState(v) == [v |-> v]

(* ---------------------------------------------------------------------- *)
(* threshold(x, method, alpha): forward value of the step nonlinearity     *)
(* ---------------------------------------------------------------------- *)
threshold(x, method, alpha) == IF RGe(x, Zero) THEN One ELSE Zero

(* ---------------------------------------------------------------------- *)
(* lif_box_feed_forward_step                                               *)
(* ---------------------------------------------------------------------- *)
\* dv_of with the leak term's sign reversed: the voltage is pushed away from
\* input + v_leak instead of towards it
dv_of_away(input_tensor, st, pp, d) ==
    RMul(RMul(d, pp.tau_mem_inv), RSub(st.v, RAdd(input_tensor, pp.v_leak)))

\* dv_of with the time-constant factor left out
dv_of_no_tau(input_tensor, st, pp, d) ==
    RMul(d, RSub(RAdd(input_tensor, pp.v_leak), st.v))

\* dv = dt * p.tau_mem_inv * (input_tensor + p.v_leak - state.v)
dv_of(input_tensor, st, pp, d) ==
    RMul(RMul(d, pp.tau_mem_inv), RSub(RAdd(input_tensor, pp.v_leak), st.v))

\* v_decayed = state.v + dv
v_decayed_of(st, dv) == RAdd(st.v, dv)

\* z_new_of with the operands of the subtraction exchanged
z_new_of_flipped(v_decayed, pp) ==
    threshold(RSub(pp.v_th, v_decayed), pp.method, pp.alpha)

\* z_new_of without the threshold: the distance to threshold is returned
z_new_of_raw(v_decayed, pp) == RSub(v_decayed, pp.v_th)

\* z_new = threshold(v_decayed - p.v_th, p.method, p.alpha)
z_new_of(v_decayed, pp) == threshold(RSub(v_decayed, pp.v_th), pp.method, pp.alpha)

\* v_new_of with the two branches of the reset exchanged
v_new_of_swapped(z_new, v_decayed, pp) ==
    RAdd(RMul(z_new, v_decayed), RMul(RSub(One, z_new), pp.v_reset))

\* v_new_of with the spike factor of the reset term dropped
v_new_of_always_reset(z_new, v_decayed, pp) ==
    RAdd(RMul(RSub(One, z_new), v_decayed), pp.v_reset)

\* v_new_of with the reset subtracted from the decayed voltage instead of
\* replacing it
v_new_of_subtractive(z_new, v_decayed, pp) ==
    RSub(v_decayed, RMul(z_new, RSub(pp.v_th, pp.v_reset)))

\* v_new = (1 - z_new) * v_decayed + z_new * p.v_reset
v_new_of(z_new, v_decayed, pp) ==
    RAdd(RMul(RSub(One, z_new), v_decayed), RMul(z_new, pp.v_reset))

\* The step with the new voltage also stored into the state object passed in
lif_box_feed_forward_step_inplace(input_tensor, st, pp, d) ==
    LET dv == dv_of(input_tensor, st, pp, d)
        v_decayed == v_decayed_of(st, dv)
        z_new == z_new_of(v_decayed, pp)
        v_new == v_new_of(z_new, v_decayed, pp)
    IN  [z_new |-> z_new,
         new_state |-> LIFBoxFeedForwardState(v_new),
         dv |-> dv,
         v_decayed |-> v_decayed,
         input_tensor |-> input_tensor,
         state |-> LIFBoxFeedForwardState(v_new),
         p |-> pp]

\* The step with the spike decided on the incoming voltage, before the update
lif_box_feed_forward_step_spike_first(input_tensor, st, pp, d) ==
    LET dv == dv_of(input_tensor, st, pp, d)
        v_decayed == v_decayed_of(st, dv)
        z_new == z_new_of(st.v, pp)
        v_new == v_new_of(z_new, v_decayed, pp)
    IN  [z_new |-> z_new,
         new_state |-> LIFBoxFeedForwardState(v_new),
         dv |-> dv,
         v_decayed |-> v_decayed,
         input_tensor |-> input_tensor,
         state |-> st,
         p |-> pp]

\* The call: the returned pair (z_new, new_state), the locals dv and
\* v_decayed, and the values the argument objects hold when it returns.
lif_box_feed_forward_step(input_tensor, st, pp, d) ==
    LET dv == dv_of(input_tensor, st, pp, d)
        v_decayed == v_decayed_of(st, dv)
        z_new == z_new_of(v_decayed, pp)
        v_new == v_new_of(z_new, v_decayed, pp)
    IN  [z_new |-> z_new,
         new_state |-> LIFBoxFeedForwardState(v_new),
         dv |-> dv,
         v_decayed |-> v_decayed,
         input_tensor |-> input_tensor,
         state |-> st,
         p |-> pp]

(* ---------------------------------------------------------------------- *)
(* The caller                                                              *)
(* ---------------------------------------------------------------------- *)
NoCall == [made |-> FALSE]

Init ==
    /\ p \in LIFBoxParameters
    /\ dt \in Dts
    /\ \E v \in InitialVs : state = LIFBoxFeedForwardState(v) /\ v_init = v
    /\ call = NoCall
    /\ steps = 0
    /\ inputs_seen = {}
    /\ spikes = 0

\* one call z, state = lif_box_feed_forward_step(input_tensor, state, p, dt)
Step(input_tensor) ==
    /\ steps < MaxSteps
    /\ LET r == lif_box_feed_forward_step(input_tensor, state, p, dt)
       IN  /\ call' = [made |-> TRUE,
                       arg_input_tensor |-> input_tensor,
                       arg_state |-> state,
                       arg_p |-> p,
                       ret |-> r]
           /\ state' = r.new_state
           /\ p' = r.p
           /\ spikes' = spikes + (IF r.z_new = One THEN 1 ELSE 0)
    /\ steps' = steps + 1
    /\ inputs_seen' = inputs_seen \cup {input_tensor}
    /\ UNCHANGED <<dt, v_init>>

Next == \E input_tensor \in Inputs : Step(input_tensor)

Spec == Init /\ [][Next]_vars

TypeOK ==
    /\ p \in LIFBoxParameters
    /\ steps \in 0..MaxSteps
    /\ spikes \in 0..steps
    /\ inputs_seen \subseteq Inputs
(* ---------------------------------------------------------------------- *)
(* Properties                                                              *)
(* ---------------------------------------------------------------------- *)
Two == Rat(2, 1)

\* the locals and results of the most recent call
VIn == call.arg_state.v
VDecayed == call.ret.v_decayed
ZNew == call.ret.z_new
VNew == call.ret.new_state.v

\* C1: whenever the decayed voltage of a call is at or above v_th (the
\* boundary v_decayed = v_th included), the call returns z_new = 1 and a
\* state whose voltage is v_reset.
C1_SpikeResets ==
    (call.made /\ RGe(VDecayed, p.v_th)) => (ZNew = One /\ VNew = p.v_reset)

\* a call whose decayed voltage is exactly v_th, with v_reset different
C1_Witness ==
    /\ call.made
    /\ VDecayed = p.v_th
    /\ p.v_reset # p.v_th
    /\ ZNew = One
    /\ state.v = p.v_reset

\* C2: whenever the decayed voltage of a call is strictly below v_th, the
\* call returns z_new = 0 and a state whose voltage is exactly v_decayed.
C2_NoSpikeKeepsDecayed ==
    (call.made /\ RLt(VDecayed, p.v_th)) => (ZNew = Zero /\ VNew = VDecayed)

\* a call below threshold whose voltage moved and is not the reset value
C2_Witness ==
    /\ call.made
    /\ RLt(VDecayed, p.v_th)
    /\ VDecayed # VIn
    /\ VDecayed # p.v_reset
    /\ state.v = VDecayed

\* the runs of the resting-equilibrium case: v = 0 at the start, v_leak = 0
\* and input 0 in every call so far
AtRest == v_init = Zero /\ p.v_leak = Zero /\ inputs_seen \subseteq {Zero}

\* C3 as stated: in a run at rest the state voltage is 0 after every step,
\* whatever v_th and v_reset are.
C3_RestAnyThreshold == AtRest => state.v = Zero

\* C3 amended: in a run at rest the state voltage is 0 after every step,
\* for any dt and tau_mem_inv, provided v_th > 0 or v_reset = 0.
C3_RestEquilibrium ==
    (AtRest /\ (RLt(Zero, p.v_th) \/ p.v_reset = Zero)) => state.v = Zero

\* several steps at rest with a non-zero time constant and reset value
C3_Witness ==
    /\ AtRest
    /\ steps >= 2
    /\ p.tau_mem_inv # Zero
    /\ RLt(Zero, p.v_th)
    /\ p.v_reset # Zero
    /\ state.v = Zero

\* C4 as stated: with tau_mem_inv = 0 the state voltage equals the initial
\* voltage after any sequence of calls.
C4_FrozenVoltage == p.tau_mem_inv = Zero => state.v = v_init

\* C4 amended: with tau_mem_inv = 0, dv is 0 in every step and v_decayed is
\* the incoming voltage; the state voltage equals the initial voltage after
\* any sequence of calls when the initial voltage is below v_th, and equals
\* v_reset after every call when the initial voltage is at or above v_th.
C4_ZeroTau ==
    (p.tau_mem_inv = Zero /\ call.made) =>
        /\ call.ret.dv = Zero
        /\ VDecayed = VIn
        /\ RLt(v_init, p.v_th) => state.v = v_init
        /\ RGe(v_init, p.v_th) => state.v = p.v_reset

\* several steps with tau_mem_inv = 0 and inputs that differ from the voltage
C4_Witness ==
    /\ p.tau_mem_inv = Zero
    /\ steps >= 2
    /\ Cardinality(inputs_seen) >= 2
    /\ RLt(v_init, p.v_th)
    /\ p.v_reset # v_init
    /\ state.v = v_init

\* the run of the example: default parameters, dt = 0.001, v = 0 at the
\* start and input 2.0 in every call so far
DefaultRun ==
    /\ p = DefaultParameters
    /\ dt = DefaultDt
    /\ v_init = Zero
    /\ inputs_seen = {Two}

\* C5: in the default run the neuron spikes (within 7 steps); at every step
\* before the first spike z_new = 0, v_decayed is below 1.0 and the voltage
\* strictly increases and stays below 2.0; the first spike comes with
\* v_decayed at or above 1.0 and returns the voltage 0.
C5_DefaultRunSpikes ==
    DefaultRun =>
        /\ steps >= 7 => spikes >= 1
        /\ spikes = 0 =>
              /\ ZNew = Zero
              /\ RLt(VDecayed, One)
              /\ RLt(VIn, state.v)
              /\ RLt(state.v, Two)
        /\ (spikes = 1 /\ ZNew = One) =>
              /\ RGe(VDecayed, One)
              /\ RLt(VIn, One)
              /\ state.v = Zero

\* the first spike of the default run
C5_Witness ==
    /\ DefaultRun
    /\ spikes = 1
    /\ ZNew = One
    /\ steps = 7
    /\ state.v = Zero

\* C6: the spike returned by every call is exactly 0 or 1.
C6_SpikeIsBinary == call.made => ZNew \in {Zero, One}

\* a run in which both values have been returned
C6_Witness == call.made /\ spikes >= 1 /\ ZNew = Zero /\ VDecayed # p.v_th

\* C8: when a call returns, the input tensor, the state passed in and every
\* parameter field hold the values they had before the call; the new voltage
\* is only in the returned state.
C8_ArgumentsUnchanged ==
    call.made =>
        /\ call.ret.input_tensor = call.arg_input_tensor
        /\ call.ret.state = call.arg_state
        /\ call.ret.p = call.arg_p
        /\ p = call.arg_p
        /\ state = call.ret.new_state

\* a call that returned a voltage different from the one passed in
C8_Witness == call.made /\ VNew # VIn /\ call.ret.state.v = VIn

\* C9: the spike is decided on the voltage after the update of the same
\* step: a call entered below v_th whose v_decayed is at or above v_th
\* spikes and resets, and a call entered at or above v_th whose v_decayed is
\* below v_th does not spike and returns v_decayed.
C9_SpikeOnUpdatedVoltage ==
    call.made =>
        /\ (RLt(VIn, p.v_th) /\ RGe(VDecayed, p.v_th)) =>
              (ZNew = One /\ VNew = p.v_reset)
        /\ (RGe(VIn, p.v_th) /\ RLt(VDecayed, p.v_th)) =>
              (ZNew = Zero /\ VNew = VDecayed)

\* a call entered at or above threshold that decays below it without a
\* spike, in a run that started below threshold and has spiked: its first
\* spike came from a call entered below threshold
C9_Witness ==
    /\ call.made
    /\ RLt(v_init, p.v_th)
    /\ spikes >= 1
    /\ RGe(VIn, p.v_th)
    /\ RLt(VDecayed, p.v_th)
    /\ ZNew = Zero

\* C10: when v_reset < v_th the voltage returned by every call is strictly
\* below v_th, whatever the incoming voltage; and the returned voltage is
\* always v_decayed or v_reset.
C10_BelowThresholdAfterStep ==
    call.made =>
        /\ VNew \in {VDecayed, p.v_reset}
        /\ RLt(p.v_reset, p.v_th) => RLt(state.v, p.v_th)

\* a call entered at or above threshold that spikes again, with v_reset < v_th
C10_Witness ==
    /\ call.made
    /\ RLt(p.v_reset, p.v_th)
    /\ RGe(VIn, p.v_th)
    /\ RLt(p.v_th, VDecayed)
    /\ ZNew = One
    /\ RLt(state.v, p.v_th)
====
